---- MODULE Spec2Model ----
(***************************************************************************)
(* A model of mailscout's Scout (src/mailscout/scout.py): candidate        *)
(* generation from names and prefixes, the SMTP probe, the catch-all gate, *)
(* and the two worker pools of find_valid_emails and                       *)
(* find_valid_emails_bulk.  Spec follows one call of find_valid_emails,    *)
(* SpecBulk one call of find_valid_emails_bulk, SpecSmtp one call of       *)
(* check_smtp step by step, SpecUnit one call of a pure method.            *)
(*                                                                         *)
(* Strings are sequences of one-character strings, so that split, join,    *)
(* name[0] and the f-string "{variant}@{domain}" are computed and not      *)
(* assumed.  A character outside ASCII is written as a named token         *)
(* ("e_acute"): one element of the sequence, one character of the string.  *)
(***************************************************************************)
EXTENDS Integers, Sequences, FiniteSets, TLC

(***************************************************************************)
(* Bounds of the model.                                                    *)
(***************************************************************************)
\* largest pool size num_threads that Init draws
MaxThreads == 2
\* largest pool size num_bulk_threads that Init draws
MaxBulkThreads == 2
\* how many entries of the prefix catalogue the model keeps
MaxPrefixes == 2
\* the longest list of name tokens, or of custom prefixes, a pure method is
\* called with
MaxTokens == 3
\* the longest string normalize_name is called with
MaxNameLen == 2

(***************************************************************************)
(* Strings.                                                                *)
(***************************************************************************)
Range(s) == {s[i] : i \in DOMAIN s}

\* the positions of s that hold the separator c
SepPositions(s, c) == {i \in DOMAIN s : s[i] = c}

\* str.split(c): the pieces of s between the occurrences of c, empty pieces kept
Split(s, c) ==
  LET seps == SepPositions(s, c)
      cuts == {0} \cup seps \cup {Len(s) + 1}
      nxt(i) == CHOOSE j \in cuts : j > i /\ \A k \in cuts : k > i => j <= k
      RECURSIVE from(_)
      from(i) == IF i = Len(s) + 1 THEN <<>>
                 ELSE CHOOSE r \in {<<SubSeq(s, i + 1, j - 1)>> \o from(j) :
                                       j \in {nxt(i)}} : TRUE
  IN  from(0)

\* sep.join(parts)
RECURSIVE Join(_, _)
Join(parts, sep) ==
  IF Len(parts) = 0 THEN <<>>
  ELSE IF Len(parts) = 1 THEN parts[1]
  ELSE parts[1] \o sep \o Join(Tail(parts), sep)

\* the concatenation of a list of lists
RECURSIVE Flatten(_)
Flatten(ll) == IF Len(ll) = 0 THEN <<>> ELSE Head(ll) \o Flatten(Tail(ll))

\* every list that holds each element of the finite set S exactly once: a Python
\* set of strings is iterated in an order the hash seed of the process decides
Orderings(S) ==
  UNION {{l \in [1..Cardinality(T) -> T] : \A x \in T : \E i \in DOMAIN l : l[i] = x} :
           T \in {S}}

NoDuplicates(l) == \A i, j \in DOMAIN l : l[i] = l[j] => i = j

\* how many positions of l hold x
Count(l, x) == Cardinality({i \in DOMAIN l : l[i] = x})

(***************************************************************************)
(* normalize_name                                                          *)
(***************************************************************************)
LowerAscii == {"a", "b", "i", "e"}
Digits == {"7"}

\* one character through name.upper().lower()
CaseFoldChar(c) ==
  CASE c = "A" -> "a"
    [] c = "B" -> "b"
    [] c = "E_acute" -> "e_acute"
    [] OTHER -> c

\* one character through unidecode: ASCII is kept, an accented letter loses its
\* accent, an ideograph becomes its capitalised romanisation and a space
UnidecodeChar(c) ==
  CASE c = "e_acute" -> <<"e">>
    [] c = "E_acute" -> <<"E">>
    [] c = "cjk_bei" -> <<"B", "e", "i", " ">>
    [] OTHER -> <<c>>

IsAscii(c) == c \notin {"e_acute", "E_acute", "cjk_bei"}

\* the regular expression [a-zA-Z0-9]
IsAlnum(c) == c \in LowerAscii \cup Digits \cup {"A", "B", "E"}

CaseFold(s) == [i \in DOMAIN s |-> CaseFoldChar(s[i])]
Unidecode(s) ==
  CHOOSE r \in {Flatten(ll) : ll \in {[i \in DOMAIN s |-> UnidecodeChar(s[i])]}} : TRUE
\* NFKD then encode('ascii', 'ignore'): after unidecode the text is ASCII
AsciiIgnore(s) == SelectSeq(s, IsAscii)
StripNonAlnum(s) == SelectSeq(s, IsAlnum)

normalize_name(name) ==
  CHOOSE r \in {StripNonAlnum(AsciiIgnore(Unidecode(folded))) :
                  folded \in {CaseFold(name)}} : TRUE

(***************************************************************************)
(* generate_prefixes                                                       *)
(***************************************************************************)
At == <<"@">>

\* f"{local}@{domain}"
Address(local, domain) == local \o At \o domain

common_prefixes ==
    <<
       <<"i","n","f","o">>,
       <<"c","o","n","t","a","c","t">>,
       <<"s","a","l","e","s">>,
       <<"s","u","p","p","o","r","t">>,
       <<"a","d","m","i","n">>,
       <<"s","e","r","v","i","c","e">>,
       <<"t","e","a","m">>,
       <<"h","e","l","l","o">>,
       <<"m","a","r","k","e","t","i","n","g">>,
       <<"h","r">>,
       <<"o","f","f","i","c","e">>,
       <<"a","c","c","o","u","n","t","s">>,
       <<"b","i","l","l","i","n","g">>,
       <<"c","a","r","e","e","r","s">>,
       <<"j","o","b","s">>,
       <<"p","r","e","s","s">>,
       <<"h","e","l","p">>,
       <<"e","n","q","u","i","r","i","e","s">>,
       <<"m","a","n","a","g","e","m","e","n","t">>,
       <<"s","t","a","f","f">>,
       <<"w","e","b","m","a","s","t","e","r">>,
       <<"a","d","m","i","n","i","s","t","r","a","t","o","r">>,
       <<"c","u","s","t","o","m","e","r">>,
       <<"t","e","c","h">>,
       <<"f","i","n","a","n","c","e">>,
       <<"l","e","g","a","l">>,
       <<"c","o","m","p","l","i","a","n","c","e">>,
       <<"o","p","e","r","a","t","i","o","n","s">>,
       <<"i","t">>,
       <<"n","e","t","w","o","r","k">>,
       <<"d","e","v","e","l","o","p","m","e","n","t">>,
       <<"r","e","s","e","a","r","c","h">>,
       <<"d","e","s","i","g","n">>,
       <<"e","n","g","i","n","e","e","r","i","n","g">>,
       <<"p","r","o","d","u","c","t","i","o","n">>,
       <<"p","u","r","c","h","a","s","i","n","g">>,
       <<"l","o","g","i","s","t","i","c","s">>,
       <<"t","r","a","i","n","i","n","g">>,
       <<"c","e","o">>,
       <<"d","i","r","e","c","t","o","r">>,
       <<"m","a","n","a","g","e","r">>,
       <<"e","x","e","c","u","t","i","v","e">>,
       <<"a","g","e","n","t">>,
       <<"r","e","p","r","e","s","e","n","t","a","t","i","v","e">>,
       <<"p","a","r","t","n","e","r">>,
       <<"b","l","o","g">>,
       <<"f","o","r","u","m">>,
       <<"n","e","w","s">>,
       <<"u","p","d","a","t","e","s">>,
       <<"e","v","e","n","t","s">>,
       <<"c","o","m","m","u","n","i","t","y">>,
       <<"s","h","o","p">>,
       <<"s","t","o","r","e">>,
       <<"f","e","e","d","b","a","c","k">>,
       <<"m","e","d","i","a">>,
       <<"r","e","s","o","u","r","c","e">>,
       <<"r","e","s","o","u","r","c","e","s">>,
       <<"a","p","i">>,
       <<"d","e","v">>,
       <<"d","e","v","e","l","o","p","e","r">>,
       <<"s","t","a","t","u","s">>,
       <<"s","e","c","u","r","i","t","y">>
    >>

\* the catalogue as the model keeps it: its first MaxPrefixes entries
ModelledPrefixes == SubSeq(common_prefixes, 1, MaxPrefixes)

AddressesOf(prefixes, domain) ==
  [i \in DOMAIN prefixes |-> Address(prefixes[i], domain)]

generate_prefixes(domain) == AddressesOf(ModelledPrefixes, domain)

generate_prefixes_custom(domain, custom_prefixes) ==
  AddressesOf(custom_prefixes, domain)

(***************************************************************************)
(* generate_email_variants                                                 *)
(***************************************************************************)
\* itertools.product(names, repeat=r): positions may repeat
product(names, r) ==
  {[i \in 1..r |-> names[p[i]]] : p \in [1..r -> DOMAIN names]}
\* itertools.permutations(names, r): the r-tuples of distinct positions
permutations(names, r) ==
  {[i \in 1..r |-> names[p[i]]] :
     p \in {f \in [1..r -> DOMAIN names] : \A i, j \in 1..r : f[i] = f[j] => i = j}}

NormalizedNames(names, normalize) ==
  IF normalize THEN [i \in DOMAIN names |-> normalize_name(names[i])] ELSE names

\* name[0] of an empty string raises IndexError
VariantsRaise(names, normalize) ==
  \E ns \in {NormalizedNames(names, normalize)} : \E i \in DOMAIN ns : Len(ns[i]) = 0

\* lines 178-188 on the names ns: the set variants, when nothing raised
VariantsOf(ns) ==
  UNION {UNION {{Join(c, <<>>), Join(c, <<".">>)} : c \in permutations(ns, r)} :
           r \in 1..Len(ns)}
  \cup {ns[i] : i \in DOMAIN ns}
  \cup {<<ns[i][1]>> : i \in DOMAIN ns}

\* lines 174-188
Variants(names, normalize) ==
  UNION {VariantsOf(ns) : ns \in {NormalizedNames(names, normalize)}}

\* the lists generate_email_variants can return (one per iteration order)
generate_email_variants(names, domain, normalize) ==
  {AddressesOf(l, domain) : l \in Orderings(Variants(names, normalize))}

\* split_list_data: every element split at spaces, the pieces concatenated
split_list_data(target) ==
  CHOOSE r \in {Flatten(pieces) :
                  pieces \in {[i \in DOMAIN target |-> Split(target[i], " ")]}} : TRUE

(***************************************************************************)
(* The names argument.  Python's value is dynamically typed: None, a       *)
(* string, a list of strings, or a list of lists of strings.  The model    *)
(* tags the value with its type; "absent" is a bulk job with no "names"    *)
(* key.                                                                    *)
(***************************************************************************)
NoneNames == [kind |-> "none", v |-> <<>>]
AbsentNames == [kind |-> "absent", v |-> <<>>]
StrNames(s) == [kind |-> "str", v |-> s]
ListNames(l) == [kind |-> "list", v |-> l]
ListsNames(ll) == [kind |-> "lists", v |-> ll]

\* Python's ==: values of different types are never equal
PyEq(a, b) == a.kind = b.kind /\ a.v = b.v

\* the truth value of names: None, "" and [] are false
Truthy(names) == names.kind \in {"str", "list", "lists"} /\ Len(names.v) > 0

\* the token lists handed to generate_email_variants, one per call of it
TokenLists(names) ==
  CASE names.kind = "str" ->
         CHOOSE r \in {<<split_list_data(words)>> :
                         words \in {Split(names.v, " ")}} : TRUE
    [] names.kind = "list" -> <<split_list_data(names.v)>>
    [] names.kind = "lists" -> [i \in DOMAIN names.v |-> split_list_data(names.v[i])]
    [] OTHER -> <<>>

\* the lists email_variants can be after every extend: one choice per token list
RECURSIVE ExtendAll(_, _, _)
ExtendAll(tls, domain, normalize) ==
  IF Len(tls) = 0 THEN {<<>>}
  ELSE UNION {{h \o t : h \in generate_email_variants(names, domain, normalize),
                         t \in ExtendAll(rest, domain, normalize)} :
                names \in {Head(tls)}, rest \in {Tail(tls)}}

UsesVariants(cfg, names) == cfg.check_variants /\ Truthy(names)
\* a prefix mode that does not look at names
UsesPrefixesAlways(cfg, names) == cfg.check_prefixes
UsesPrefixes(cfg, names) == cfg.check_prefixes /\ ~Truthy(names)

\* candidate generation raises (IndexError at name[0])
GenerationRaises(cfg, names) ==
  /\ UsesVariants(cfg, names)
  /\ \E tls \in {TokenLists(names)} :
       \E i \in DOMAIN tls : VariantsRaise(tls[i], cfg.normalize)

\* the values all_emails can take
CandidateLists(cfg, domain, names) ==
  LET evs == IF UsesVariants(cfg, names)
             THEN UNION {ExtendAll(tls, domain, cfg.normalize) :
                           tls \in {TokenLists(names)}}
             ELSE {<<>>}
      generated_mails == IF UsesPrefixes(cfg, names) THEN generate_prefixes(domain)
                         ELSE <<>>
  IN  {email_variants \o generated_mails : email_variants \in evs}

(***************************************************************************)
(* The SMTP probe.  The mail server is a fixed table from addresses to     *)
(* what a dialogue about that address ends in; the model fills the table   *)
(* in as addresses are probed.                                             *)
(***************************************************************************)
\* "250": RCPT TO answered 250 and nothing raised; "550": any other reply code;
\* "raise": resolution, connection or dialogue raised (or timed out)
Responses == {"250", "550", "raise"}

\* a probe that takes every reply code for a delivery
check_smtp_any_reply(resp) == resp # "raise"
\* check_smtp: code == 250, and False from the except clause
check_smtp(resp) == resp = "250"

\* random.choices(ascii_lowercase + digits, k=10): a sample of the draws
RandomK == 10
RandomPrefixes == {[i \in 1..RandomK |-> "x"], [i \in 1..RandomK |-> "7"]}
Falan == <<"f", "a", "l", "a", "n">>
random_email(random_prefix, domain) == Address(random_prefix \o Falan, domain)

(***************************************************************************)
(* State.  A slot is one activation of find_valid_emails: slot 0 is the    *)
(* call made by the library's user, slot b > 0 the call made by bulk       *)
(* worker b.  Queue items are the positions of the enqueued object in      *)
(* all_emails (email_data_clean), which tells two equal strings apart; 0   *)
(* is None, the stop signal.                                               *)
(***************************************************************************)
VARIABLES
  self,             \* the Scout object's fields
  server,           \* the mail server's table, as far as probes have read it
  fpc,              \* per slot: where find_valid_emails' own thread is
  fdomain, fnames,  \* per slot: the arguments
  all_emails,       \* per slot
  valid_emails,     \* per slot
  q,                \* per slot: the Queue's items, oldest first
  unfinished,       \* per slot: the Queue's unfinished_tasks
  threads,          \* per slot: how many workers were started
  fi,               \* per slot: the index of the running for loop
  wpc,              \* per slot, per worker: where the worker is
  wemail,           \* per slot, per worker: the item it holds
  retval,           \* per slot: the list returned
  catchall_probes,  \* per slot: how many catch-all probes the call issued
  probe_count,      \* per slot: per item, how many probes were issued for it
  bpc,              \* where find_valid_emails_bulk's own thread is
  email_data, email_data_clean,
  all_valid_emails,
  bq, bunfinished, bthreads, bi,
  bwpc, bwdata,     \* per bulk worker: where it is, the job it holds
  bretval,          \* the list find_valid_emails_bulk returned
  runs,             \* per job of email_data_clean, how often its pipeline was run
  skipped,          \* the jobs of email_data_clean whose except clause ran
  cs,               \* one call of check_smtp followed step by step
  unit              \* one call of a pure method

fvars == <<fpc, fdomain, fnames, all_emails, valid_emails, q, unfinished, threads,
           fi, wpc, wemail, retval, catchall_probes, probe_count>>
bvars == <<bpc, email_data, email_data_clean, all_valid_emails, bq, bunfinished,
           bthreads, bi, bwpc, bwdata, bretval, runs, skipped>>
xvars == <<cs, unit>>

\* the call of check_smtp
cpc == cs.pc              \* where the call is
cemail == cs.email        \* its argument
cdomain == cs.domain      \* its local domain
conn == cs.conn           \* the socket of its SMTP object: "none", "open", "closed"
pending == cs.pending     \* an exception is travelling out of the with block
code == cs.code           \* the reply code server.rcpt returned, "" before that
dialogue == cs.dialogue   \* what resolver and server did, step by step
cret == cs.ret            \* what check_smtp returned

\* the call of a pure method
ucall == unit.call        \* the method and its arguments
upc == unit.pc            \* where the call is
uret == unit.ret          \* what it returned
vars == <<self, server, fvars, bvars, xvars>>

Slots == 0..MaxBulkThreads
BulkWorkers == 1..MaxBulkThreads
Workers == 1..MaxThreads

None == 0

\* Queue.put: the item goes to the tail
QueuePut(queue, item) == Append(queue, item)
\* Queue.put and Queue.task_done on unfinished_tasks
AfterPut(n) == n + 1
AfterTaskDone(n) == n - 1
\* a join that does not wait for the tasks
JoinReturnsAlways(n) == TRUE
\* Queue.join returns when no task is unfinished
JoinReturns(n) == n = 0
\* Queue.get: the oldest item is handed out and leaves the queue
QueueHead(queue) == Head(queue)
\* a get that leaves the item in the queue
QueueRestPeek(queue) == queue
QueueRest(queue) == Tail(queue)
\* an append that loses an update: it writes over the last entry
ListAppendLossy(l, x) == IF Len(l) = 0 THEN <<x>> ELSE [l EXCEPT ![Len(l)] = x]
\* list.append
ListAppend(l, x) == Append(l, x)
\* a join that does not wait
ThreadJoinedAlways(state) == TRUE
\* Thread.join returns once the thread has left its loop
ThreadJoined(state) == state = "exited"
\* a loop that starts one thread too many
NumWorkersOneMore(num_worker_threads) == num_worker_threads + 1
\* range(num_worker_threads): how many workers are started
NumWorkers(num_worker_threads) == num_worker_threads
\* one stop signal too few
NumStopSignalsShort(num_worker_threads) == num_worker_threads - 1
\* range(num_worker_threads): how many stop signals are put
NumStopSignals(num_worker_threads) == num_worker_threads
\* a pre-check whose verdict is ignored
AfterCatchAllIgnored(catchall) == "generate"
\* lines 210-211: a catch-all domain ends the call, anything else goes on
AfterCatchAll(catchall) == IF catchall THEN "returned" ELSE "generate"
\* an exception that ends the worker's thread
AfterExceptDies == "exited"
\* lines 222-225 and 308-311: after the except clause comes the finally clause
AfterExcept == "done"

Zeros(l) == [i \in DOMAIN l |-> 0]

(***************************************************************************)
(* find_valid_emails, slot s: its own thread.                              *)
(***************************************************************************)
\* one probe of address e: the server answers as its table says
Probe(e, resp) ==
  /\ resp \in Responses
  /\ e \in DOMAIN server => resp = server[e]
  /\ server' = (e :> resp) @@ server

\* lines 209-211: the catch-all pre-check, in the caller's thread
FvCatchAll(s) ==
  /\ fpc[s] = "call"
  /\ self.check_catchall
  /\ \E random_prefix \in RandomPrefixes, resp \in Responses :
       /\ Probe(random_email(random_prefix, fdomain[s]), resp)
       /\ catchall_probes' = [catchall_probes EXCEPT ![s] = @ + 1]
       /\ fpc' = [fpc EXCEPT ![s] = AfterCatchAll(check_smtp(resp))]
       /\ retval' = [retval EXCEPT ![s] = <<>>]
  /\ UNCHANGED <<xvars, self, fdomain, fnames, all_emails, valid_emails, q, unfinished,
                 threads, fi, wpc, wemail, probe_count, bvars>>

FvNoCatchAll(s) ==
  /\ fpc[s] = "call"
  /\ ~self.check_catchall
  /\ fpc' = [fpc EXCEPT ![s] = "generate"]
  /\ UNCHANGED <<xvars, self, server, fdomain, fnames, all_emails, valid_emails, q,
                 unfinished, threads, fi, wpc, wemail, retval, catchall_probes,
                 probe_count, bvars>>

\* lines 227-250, when generate_email_variants raises
FvGenerateRaises(s) ==
  /\ fpc[s] = "generate"
  /\ GenerationRaises(self, fnames[s])
  /\ fpc' = [fpc EXCEPT ![s] = "raised"]
  /\ UNCHANGED <<xvars, self, server, fdomain, fnames, all_emails, valid_emails, q,
                 unfinished, threads, fi, wpc, wemail, retval, catchall_probes,
                 probe_count, bvars>>

\* lines 227-251
FvGenerate(s) ==
  /\ fpc[s] = "generate"
  /\ ~GenerationRaises(self, fnames[s])
  /\ \E l \in CandidateLists(self, fdomain[s], fnames[s]) :
       /\ all_emails' = [all_emails EXCEPT ![s] = l]
       /\ probe_count' = [probe_count EXCEPT ![s] = Zeros(l)]
  /\ valid_emails' = [valid_emails EXCEPT ![s] = <<>>]
  /\ q' = [q EXCEPT ![s] = <<>>]
  /\ unfinished' = [unfinished EXCEPT ![s] = 0]
  /\ threads' = [threads EXCEPT ![s] = 0]
  /\ fpc' = [fpc EXCEPT ![s] = "start"]
  /\ UNCHANGED <<xvars, self, server, fdomain, fnames, fi, wpc, wemail, retval,
                 catchall_probes, bvars>>

\* lines 254-257: one turn of the loop that starts the workers
FvStartThread(s) ==
  /\ fpc[s] = "start"
  /\ threads[s] < NumWorkers(self.num_threads)
  /\ threads' = [threads EXCEPT ![s] = @ + 1]
  /\ wpc' = [wpc EXCEPT ![s][threads[s] + 1] = "get"]
  /\ fi' = [fi EXCEPT ![s] = 0]
  /\ fpc' = [fpc EXCEPT ![s] =
               IF threads[s] + 1 < NumWorkers(self.num_threads) THEN "start"
               ELSE IF Len(all_emails[s]) > 0 THEN "enqueue" ELSE "qjoin"]
  /\ UNCHANGED <<xvars, self, server, fdomain, fnames, all_emails, valid_emails, q,
                 unfinished, wemail, retval, catchall_probes, probe_count, bvars>>

\* lines 260-261: one turn of the loop that enqueues the candidates
FvEnqueue(s) ==
  /\ fpc[s] = "enqueue"
  /\ q' = [q EXCEPT ![s] = QueuePut(@, fi[s] + 1)]
  /\ unfinished' = [unfinished EXCEPT ![s] = AfterPut(@)]
  /\ fi' = [fi EXCEPT ![s] = @ + 1]
  /\ fpc' = [fpc EXCEPT ![s] =
               IF fi[s] + 1 < Len(all_emails[s]) THEN "enqueue" ELSE "qjoin"]
  /\ UNCHANGED <<xvars, self, server, fdomain, fnames, all_emails, valid_emails, threads,
                 wpc, wemail, retval, catchall_probes, probe_count, bvars>>

\* line 264: q.join()
FvQueueJoin(s) ==
  /\ fpc[s] = "qjoin"
  /\ JoinReturns(unfinished[s])
  /\ fi' = [fi EXCEPT ![s] = 0]
  /\ fpc' = [fpc EXCEPT ![s] = "stop"]
  /\ UNCHANGED <<xvars, self, server, fdomain, fnames, all_emails, valid_emails, q,
                 unfinished, threads, wpc, wemail, retval, catchall_probes,
                 probe_count, bvars>>

\* lines 267-268: one turn of the loop that puts the stop signals
FvStop(s) ==
  /\ fpc[s] = "stop"
  /\ q' = [q EXCEPT ![s] = QueuePut(@, None)]
  /\ unfinished' = [unfinished EXCEPT ![s] = AfterPut(@)]
  /\ fi' = [fi EXCEPT ![s] = IF @ + 1 < NumStopSignals(self.num_threads)
                               THEN @ + 1 ELSE 0]
  /\ fpc' = [fpc EXCEPT ![s] =
               IF fi[s] + 1 < NumStopSignals(self.num_threads) THEN "stop"
               ELSE "tjoin"]
  /\ UNCHANGED <<xvars, self, server, fdomain, fnames, all_emails, valid_emails, threads,
                 wpc, wemail, retval, catchall_probes, probe_count, bvars>>

\* lines 269-272: one turn of the loop that joins the workers, then the return
FvJoinThread(s) ==
  /\ fpc[s] = "tjoin"
  /\ ThreadJoined(wpc[s][fi[s] + 1])
  /\ fi' = [fi EXCEPT ![s] = IF @ + 1 < threads[s] THEN @ + 1 ELSE 0]
  /\ IF fi[s] + 1 < threads[s]
     THEN UNCHANGED <<fpc, retval>>
     ELSE /\ fpc' = [fpc EXCEPT ![s] = "returned"]
          /\ retval' = [retval EXCEPT ![s] = valid_emails[s]]
  /\ UNCHANGED <<xvars, self, server, fdomain, fnames, all_emails, valid_emails, q,
                 unfinished, threads, wpc, wemail, catchall_probes, probe_count,
                 bvars>>

(***************************************************************************)
(* find_valid_emails.worker, worker w of slot s.                           *)
(***************************************************************************)
\* lines 216-218: q.get() blocks while the queue is empty; None ends the loop
WorkerGet(s, w) ==
  /\ wpc[s][w] = "get"
  /\ Len(q[s]) > 0
  /\ q' = [q EXCEPT ![s] = QueueRest(@)]
  /\ IF QueueHead(q[s]) = None
     THEN /\ wpc' = [wpc EXCEPT ![s][w] = "exited"]
          /\ UNCHANGED wemail
     ELSE /\ wpc' = [wpc EXCEPT ![s][w] = "check"]
          /\ wemail' = [wemail EXCEPT ![s][w] = QueueHead(q[s])]
  /\ UNCHANGED <<xvars, self, server, fpc, fdomain, fnames, all_emails, valid_emails,
                 unfinished, threads, fi, retval, catchall_probes, probe_count,
                 bvars>>

\* line 220: check_smtp(email)
WorkerCheck(s, w) ==
  /\ wpc[s][w] = "check"
  /\ \E resp \in Responses :
       /\ Probe(all_emails[s][wemail[s][w]], resp)
       /\ wpc' = [wpc EXCEPT ![s][w] = IF check_smtp(resp) THEN "append" ELSE "done"]
  /\ probe_count' = [probe_count EXCEPT ![s][wemail[s][w]] = @ + 1]
  /\ UNCHANGED <<xvars, self, fpc, fdomain, fnames, all_emails, valid_emails, q,
                 unfinished, threads, fi, wemail, retval, catchall_probes, bvars>>

\* line 221: valid_emails.append(email)
WorkerAppend(s, w) ==
  /\ wpc[s][w] = "append"
  /\ valid_emails' = [valid_emails EXCEPT ![s] =
                        ListAppend(@, all_emails[s][wemail[s][w]])]
  /\ wpc' = [wpc EXCEPT ![s][w] = "done"]
  /\ UNCHANGED <<xvars, self, server, fpc, fdomain, fnames, all_emails, q, unfinished,
                 threads, fi, wemail, retval, catchall_probes, probe_count, bvars>>

\* lines 224-225: finally: q.task_done()
WorkerTaskDone(s, w) ==
  /\ wpc[s][w] = "done"
  /\ unfinished' = [unfinished EXCEPT ![s] = AfterTaskDone(@)]
  /\ wpc' = [wpc EXCEPT ![s][w] = "get"]
  /\ wemail' = [wemail EXCEPT ![s][w] = None]
  /\ UNCHANGED <<xvars, self, server, fpc, fdomain, fnames, all_emails, valid_emails, q,
                 threads, fi, retval, catchall_probes, probe_count, bvars>>

\* the steps of the thread that runs find_valid_emails in slot s
FvMain(s) ==
  \/ FvCatchAll(s)
  \/ FvNoCatchAll(s)
  \/ FvGenerateRaises(s)
  \/ FvGenerate(s)
  \/ FvStartThread(s)
  \/ FvEnqueue(s)
  \/ FvQueueJoin(s)
  \/ FvStop(s)
  \/ FvJoinThread(s)

\* the steps of worker w of slot s
FvWorker(s, w) ==
  \/ WorkerGet(s, w)
  \/ WorkerCheck(s, w)
  \/ WorkerAppend(s, w)
  \/ WorkerTaskDone(s, w)

\* every step of one activation of find_valid_emails
FvStep(s) == FvMain(s) \/ \E w \in Workers : FvWorker(s, w)

(***************************************************************************)
(* find_valid_emails_bulk.  A job is the dictionary {"domain": ..,         *)
(* "names": ..}; names is AbsentNames when the dictionary has no such key. *)
(***************************************************************************)
Job(domain, names) == [domain |-> domain, names |-> names]

\* dict ==
JobEq(a, b) == a.domain = b.domain /\ PyEq(a.names, b.names)

\* data.get("names", [])
JobNames(data) == IF data.names.kind = "absent" THEN ListNames(<<>>) ELSE data.names

\* i not in email_data[n + 1:]
NotInRest(data, n) == \A m \in (n + 1)..Len(data) : ~JobEq(data[n], data[m])

\* line 291: [i for n, i in enumerate(email_data) if i not in email_data[n + 1:]]
RECURSIVE RemoveDuplicatesFrom(_, _)
RemoveDuplicatesFrom(data, n) ==
  IF n > Len(data) THEN <<>>
  ELSE (IF NotInRest(data, n) THEN <<data[n]>> ELSE <<>>)
       \o RemoveDuplicatesFrom(data, n + 1)

RemoveDuplicates(data) == RemoveDuplicatesFrom(data, 1)

\* a record built from one result list that all the calls share
BulkResultShared(domain, names, valid) ==
  [domain |-> domain, names |-> names,
   valid_emails |-> Flatten([i \in 1..MaxBulkThreads |-> retval[i]])]
\* line 307: the record a bulk worker appends
BulkResult(domain, names, valid) ==
  [domain |-> domain, names |-> names, valid_emails |-> valid]

\* the locals of a finished activation are dropped
DropSlot(s) ==
  /\ fpc' = [fpc EXCEPT ![s] = "idle"]
  /\ fdomain' = [fdomain EXCEPT ![s] = <<>>]
  /\ fnames' = [fnames EXCEPT ![s] = NoneNames]
  /\ all_emails' = [all_emails EXCEPT ![s] = <<>>]
  /\ valid_emails' = [valid_emails EXCEPT ![s] = <<>>]
  /\ q' = [q EXCEPT ![s] = <<>>]
  /\ unfinished' = [unfinished EXCEPT ![s] = 0]
  /\ threads' = [threads EXCEPT ![s] = 0]
  /\ fi' = [fi EXCEPT ![s] = 0]
  /\ wpc' = [wpc EXCEPT ![s] = [w \in Workers |-> "new"]]
  /\ wemail' = [wemail EXCEPT ![s] = [w \in Workers |-> None]]
  /\ retval' = [retval EXCEPT ![s] = <<>>]
  /\ catchall_probes' = [catchall_probes EXCEPT ![s] = 0]
  /\ probe_count' = [probe_count EXCEPT ![s] = <<>>]

\* lines 291, 313-316
BulkClean ==
  /\ bpc = "call"
  /\ email_data_clean' = RemoveDuplicates(email_data)
  /\ runs' = Zeros(RemoveDuplicates(email_data))
  /\ skipped' = {}
  /\ all_valid_emails' = <<>>
  /\ bq' = <<>>
  /\ bunfinished' = 0
  /\ bthreads' = 0
  /\ bpc' = "start"
  /\ UNCHANGED <<xvars, self, server, fvars, email_data, bi, bwpc, bwdata, bretval>>

\* lines 319-322: one turn of the loop that starts the bulk workers
BulkStartThread ==
  /\ bpc = "start"
  /\ bthreads < NumWorkers(self.num_bulk_threads)
  /\ bthreads' = bthreads + 1
  /\ bwpc' = [bwpc EXCEPT ![bthreads + 1] = "get"]
  /\ bi' = 0
  /\ bpc' = IF bthreads + 1 < NumWorkers(self.num_bulk_threads) THEN "start"
            ELSE IF Len(email_data_clean) > 0 THEN "enqueue" ELSE "qjoin"
  /\ UNCHANGED <<xvars, self, server, fvars, email_data, email_data_clean,
                 all_valid_emails, bq, bunfinished, bwdata, bretval, runs, skipped>>

\* lines 325-326: one turn of the loop that enqueues the jobs
BulkEnqueue ==
  /\ bpc = "enqueue"
  /\ bq' = QueuePut(bq, bi + 1)
  /\ bunfinished' = AfterPut(bunfinished)
  /\ bi' = bi + 1
  /\ bpc' = IF bi + 1 < Len(email_data_clean) THEN "enqueue" ELSE "qjoin"
  /\ UNCHANGED <<xvars, self, server, fvars, email_data, email_data_clean,
                 all_valid_emails, bthreads, bwpc, bwdata, bretval, runs, skipped>>

\* line 329: q.join()
BulkQueueJoin ==
  /\ bpc = "qjoin"
  /\ JoinReturns(bunfinished)
  /\ bi' = 0
  /\ bpc' = "stop"
  /\ UNCHANGED <<xvars, self, server, fvars, email_data, email_data_clean,
                 all_valid_emails, bq, bunfinished, bthreads, bwpc, bwdata,
                 bretval, runs, skipped>>

\* lines 332-333: one turn of the loop that puts the stop signals
BulkStop ==
  /\ bpc = "stop"
  /\ bq' = QueuePut(bq, None)
  /\ bunfinished' = AfterPut(bunfinished)
  /\ bi' = IF bi + 1 < NumStopSignals(self.num_bulk_threads) THEN bi + 1 ELSE 0
  /\ bpc' = IF bi + 1 < NumStopSignals(self.num_bulk_threads) THEN "stop"
            ELSE "tjoin"
  /\ UNCHANGED <<xvars, self, server, fvars, email_data, email_data_clean,
                 all_valid_emails, bthreads, bwpc, bwdata, bretval, runs, skipped>>

\* lines 334-337: one turn of the loop that joins the bulk workers, then the return
BulkJoinThread ==
  /\ bpc = "tjoin"
  /\ ThreadJoined(bwpc[bi + 1])
  /\ bi' = IF bi + 1 < bthreads THEN bi + 1 ELSE 0
  /\ IF bi + 1 < bthreads
     THEN UNCHANGED <<bpc, bretval>>
     ELSE /\ bpc' = "returned"
          /\ bretval' = all_valid_emails
  /\ UNCHANGED <<xvars, self, server, fvars, email_data, email_data_clean,
                 all_valid_emails, bq, bunfinished, bthreads, bwpc, bwdata, runs, skipped>>

(***************************************************************************)
(* find_valid_emails_bulk.worker, bulk worker b; its calls of              *)
(* find_valid_emails run in slot b.                                        *)
(***************************************************************************)
\* lines 296-298
BulkWorkerGet(b) ==
  /\ bwpc[b] = "get"
  /\ Len(bq) > 0
  /\ bq' = QueueRest(bq)
  /\ IF QueueHead(bq) = None
     THEN /\ bwpc' = [bwpc EXCEPT ![b] = "exited"]
          /\ UNCHANGED bwdata
     ELSE /\ bwpc' = [bwpc EXCEPT ![b] = "run"]
          /\ bwdata' = [bwdata EXCEPT ![b] = QueueHead(bq)]
  /\ UNCHANGED <<xvars, self, server, fvars, bpc, email_data, email_data_clean,
                 all_valid_emails, bunfinished, bthreads, bi, bretval, runs, skipped>>

\* lines 300-306: the call find_valid_emails(domain, names)
BulkWorkerCall(b) ==
  /\ bwpc[b] = "run"
  /\ fpc' = [fpc EXCEPT ![b] = "call"]
  /\ fdomain' = [fdomain EXCEPT ![b] = email_data_clean[bwdata[b]].domain]
  /\ fnames' = [fnames EXCEPT ![b] = JobNames(email_data_clean[bwdata[b]])]
  /\ runs' = [runs EXCEPT ![bwdata[b]] = @ + 1]
  /\ bwpc' = [bwpc EXCEPT ![b] = "wait"]
  /\ UNCHANGED <<xvars, self, server, all_emails, valid_emails, q, unfinished, threads, fi,
                 wpc, wemail, retval, catchall_probes, probe_count, bpc, email_data,
                 email_data_clean, all_valid_emails, bq, bunfinished, bthreads, bi,
                 bwdata, bretval, skipped>>

\* line 307: the call returned, the record is appended
BulkWorkerAppend(b) ==
  /\ bwpc[b] = "wait"
  /\ fpc[b] = "returned"
  /\ all_valid_emails' = ListAppend(all_valid_emails,
                                    BulkResult(fdomain[b], fnames[b], retval[b]))
  /\ DropSlot(b)
  /\ bwpc' = [bwpc EXCEPT ![b] = "done"]
  /\ UNCHANGED <<xvars, self, server, bpc, email_data, email_data_clean, bq, bunfinished,
                 bthreads, bi, bwdata, bretval, runs, skipped>>

\* lines 308-309: the call raised, the job is skipped
BulkWorkerExcept(b) ==
  /\ bwpc[b] = "wait"
  /\ fpc[b] = "raised"
  /\ DropSlot(b)
  /\ bwpc' = [bwpc EXCEPT ![b] = AfterExcept]
  /\ skipped' = skipped \cup {bwdata[b]}
  /\ UNCHANGED <<xvars, self, server, bpc, email_data, email_data_clean, all_valid_emails,
                 bq, bunfinished, bthreads, bi, bwdata, bretval, runs>>

\* lines 310-311: finally: q.task_done()
BulkWorkerTaskDone(b) ==
  /\ bwpc[b] = "done"
  /\ bunfinished' = AfterTaskDone(bunfinished)
  /\ bwpc' = [bwpc EXCEPT ![b] = "get"]
  /\ bwdata' = [bwdata EXCEPT ![b] = None]
  /\ UNCHANGED <<xvars, self, server, fvars, bpc, email_data, email_data_clean,
                 all_valid_emails, bq, bthreads, bi, bretval, runs, skipped>>

\* the steps of the thread that runs find_valid_emails_bulk
BulkMain ==
  \/ BulkClean
  \/ BulkStartThread
  \/ BulkEnqueue
  \/ BulkQueueJoin
  \/ BulkStop
  \/ BulkJoinThread

\* the steps of bulk worker b, its calls of find_valid_emails included
BulkWorker(b) ==
  \/ BulkWorkerGet(b)
  \/ BulkWorkerCall(b)
  \/ BulkWorkerAppend(b)
  \/ BulkWorkerExcept(b)
  \/ BulkWorkerTaskDone(b)
  \/ FvMain(b)

BulkStep ==
  \/ BulkMain
  \/ \E b \in BulkWorkers :
       \/ BulkWorker(b)
       \/ \E w \in Workers : FvWorker(b, w)

(***************************************************************************)
(* check_smtp, step by step.  The resolver and the server choose what each *)
(* step meets; smtplib decides what that does to the socket: a reply that  *)
(* cannot be read closes it and raises SMTPServerDisconnected, a command   *)
(* returns whatever code the server replied, and leaving the with block    *)
(* sends QUIT and closes the socket.                                       *)
(***************************************************************************)
\* socket.close() as the with statement's exit does it
SmtpCloseLeak(c) == c
SmtpClose(c) == IF c = "open" THEN "closed" ELSE c

Said(step, reply) == [step |-> step, reply |-> reply]

\* the reply codes a server gives in the model
GreetingReplies == {"220", "554"}
CommandReplies == {"250", "550"}
RcptReplies == {"250", "251", "550"}
QuitReplies == {"221", "500"}

\* line 56, outside the try: email.split('@')[1]
CsSplit ==
  /\ cpc = "split"
  /\ \E parts \in {Split(cemail, "@")} :
       cs' = IF Len(parts) < 2 THEN [cs EXCEPT !.pc = "raised"]
             ELSE [cs EXCEPT !.pc = "resolve", !.domain = parts[2]]
  /\ UNCHANGED <<self, server, fvars, bvars, unit>>

\* lines 58-59: the MX lookup answers or raises
CsResolve ==
  /\ cpc = "resolve"
  /\ \E out \in {"answer", "raise"} :
       cs' = [cs EXCEPT !.dialogue = Append(@, Said("resolve", out)),
                        !.pc = IF out = "answer" THEN "connect" ELSE "except"]
  /\ UNCHANGED <<self, server, fvars, bvars, unit>>

\* line 60, smtplib.SMTP(...): no socket (refused, timed out), or a socket and
\* a greeting; any greeting but 220 closes the socket and raises, and so does
\* a greeting that cannot be read
CsConnect ==
  /\ cpc = "connect"
  /\ \E out \in {"refused", "disconnected"} \cup GreetingReplies :
       cs' = [cs EXCEPT !.dialogue = Append(@, Said("connect", out)),
                        !.conn = IF out = "refused" THEN @
                                 ELSE IF out = "220" THEN "open" ELSE "closed",
                        !.pc = IF out = "220" THEN "ehlo" ELSE "except"]
  /\ UNCHANGED <<self, server, fvars, bvars, unit>>

\* line 62: server.ehlo("example.com"); the reply is read, its code not judged
CsEhlo ==
  /\ cpc = "ehlo"
  /\ \E out \in {"disconnected"} \cup CommandReplies :
       cs' = IF out = "disconnected"
             THEN [cs EXCEPT !.dialogue = Append(@, Said("ehlo", out)),
                             !.conn = "closed", !.pending = TRUE, !.pc = "exit"]
             ELSE [cs EXCEPT !.dialogue = Append(@, Said("ehlo", out)),
                             !.pc = "mail"]
  /\ UNCHANGED <<self, server, fvars, bvars, unit>>

\* line 63: server.mail('test@example.com'); the same
CsMail ==
  /\ cpc = "mail"
  /\ \E out \in {"disconnected"} \cup CommandReplies :
       cs' = IF out = "disconnected"
             THEN [cs EXCEPT !.dialogue = Append(@, Said("mail", out)),
                             !.conn = "closed", !.pending = TRUE, !.pc = "exit"]
             ELSE [cs EXCEPT !.dialogue = Append(@, Said("mail", out)),
                             !.pc = "rcpt"]
  /\ UNCHANGED <<self, server, fvars, bvars, unit>>

\* line 64: code, message = server.rcpt(email); an address that is not ASCII
\* cannot be encoded for the wire, which raises with the socket still open
CsRcpt ==
  /\ cpc = "rcpt"
  /\ \E out \in IF \A i \in DOMAIN cemail : IsAscii(cemail[i])
                THEN {"disconnected"} \cup RcptReplies
                ELSE {"encode_error"} :
       cs' = [cs EXCEPT !.dialogue = Append(@, Said("rcpt", out)),
                        !.conn = IF out = "disconnected" THEN "closed" ELSE @,
                        !.pending = (out \in {"disconnected", "encode_error"}),
                        !.code = IF out \in RcptReplies THEN out ELSE @,
                        !.pc = "exit"]
  /\ UNCHANGED <<self, server, fvars, bvars, unit>>

\* the end of the with block: QUIT is sent if the socket is still there, the
\* socket is closed; a reply to QUIT other than 221 raises, a lost connection
\* does not
CsExit ==
  /\ cpc = "exit"
  /\ IF conn = "open"
     THEN \E out \in {"disconnected"} \cup QuitReplies :
            cs' = [cs EXCEPT !.dialogue = Append(@, Said("quit", out)),
                             !.conn = SmtpClose(@),
                             !.pending = FALSE,
                             !.pc = IF pending \/ out \notin {"221", "disconnected"}
                                    THEN "except" ELSE "return"]
     ELSE cs' = [cs EXCEPT !.conn = SmtpClose(@),
                           !.pending = FALSE,
                           !.pc = IF pending THEN "except" ELSE "return"]
  /\ UNCHANGED <<self, server, fvars, bvars, unit>>

\* line 66: return code == 250
CsReturn ==
  /\ cpc = "return"
  /\ cs' = [cs EXCEPT !.ret = (code = "250"), !.pc = "done"]
  /\ UNCHANGED <<self, server, fvars, bvars, unit>>

\* lines 67-69: except Exception: return False
CsExcept ==
  /\ cpc = "except"
  /\ cs' = [cs EXCEPT !.ret = FALSE, !.pc = "done"]
  /\ UNCHANGED <<self, server, fvars, bvars, unit>>

CsStep ==
  \/ CsSplit
  \/ CsResolve
  \/ CsConnect
  \/ CsEhlo
  \/ CsMail
  \/ CsRcpt
  \/ CsExit
  \/ CsReturn
  \/ CsExcept

(***************************************************************************)
(* The pure methods called on their own: normalize_name, generate_prefixes *)
(* and generate_email_variants.                                            *)
(***************************************************************************)
\* custom_prefixes: None, or a list
NoPrefixes == [kind |-> "none", v |-> <<>>]
CustomPrefixes(l) == [kind |-> "list", v |-> l]

\* a choice by truth value, which takes the empty list for no list
PrefixesUsedIfTruthy(custom_prefixes) ==
  IF custom_prefixes.kind = "none" \/ Len(custom_prefixes.v) = 0
  THEN ModelledPrefixes ELSE custom_prefixes.v
\* line 152: custom_prefixes if custom_prefixes is not None else common_prefixes
PrefixesUsed(custom_prefixes) ==
  IF custom_prefixes.kind = "none" THEN ModelledPrefixes ELSE custom_prefixes.v

\* generate_prefixes(domain, custom_prefixes)
generate_prefixes_call(domain, custom_prefixes) ==
  AddressesOf(PrefixesUsed(custom_prefixes), domain)

\* line 190: the addresses of the list returned; the list has one address per
\* element of the set variants, in the set's iteration order
VariantAddresses(names, domain, normalize) ==
  {Address(v, domain) : v \in Variants(names, normalize)}

\* lines 170-190
UnitGenerateEmailVariants ==
  /\ upc = "call"
  /\ ucall.fn = "generate_email_variants"
  /\ unit' = [unit EXCEPT
       !.pc = "done",
       !.ret = IF VariantsRaise(ucall.names, ucall.normalize)
               THEN [kind |-> "raised"]
               ELSE [kind |-> "list",
                     elems |-> VariantAddresses(ucall.names, ucall.domain,
                                                ucall.normalize),
                     len |-> Cardinality(Variants(ucall.names, ucall.normalize))]]
  /\ UNCHANGED <<self, server, fvars, bvars, cs>>

\* lines 104-118
UnitNormalizeName ==
  /\ upc = "call"
  /\ ucall.fn = "normalize_name"
  /\ unit' = [unit EXCEPT !.pc = "done",
                          !.ret = [kind |-> "str", v |-> normalize_name(ucall.name)]]
  /\ UNCHANGED <<self, server, fvars, bvars, cs>>

\* lines 152-153
UnitGeneratePrefixes ==
  /\ upc = "call"
  /\ ucall.fn = "generate_prefixes"
  /\ unit' = [unit EXCEPT
       !.pc = "done",
       !.ret = [kind |-> "list",
                v |-> generate_prefixes_call(ucall.domain, ucall.custom_prefixes)]]
  /\ UNCHANGED <<self, server, fvars, bvars, cs>>

UnitStep ==
  \/ UnitGenerateEmailVariants
  \/ UnitNormalizeName
  \/ UnitGeneratePrefixes

(***************************************************************************)
(* Initial states.                                                         *)
(***************************************************************************)
\* Scout.__init__: every flag either way, the pool sizes from 1 up
Configs ==
  [check_variants : BOOLEAN, check_prefixes : BOOLEAN, check_catchall : BOOLEAN,
   normalize : BOOLEAN, num_threads : 1..MaxThreads,
   num_bulk_threads : 1..MaxBulkThreads]

\* one Scout: the flags as __init__ defaults them, the pools at their smallest
DefaultConfigs ==
  {c \in Configs : /\ c.check_variants /\ c.check_prefixes /\ c.check_catchall
                   /\ c.normalize
                   /\ c.num_threads = 1 /\ c.num_bulk_threads = 1}

DomainD == <<"d">>
DomainE == <<"e">>

\* the names arguments the model calls find_valid_emails with
NamesInputs ==
  << NoneNames,
     ListNames(<<>>),
     StrNames(<<"A", "b">>),
     StrNames(<<"a", " ">>),
     ListNames(<< <<"a">>, <<"a">> >>),
     ListNames(<< <<"-">> >>),
     ListsNames(<< << <<"a">> >>, << <<"a">> >> >>) >>

IdleSlots ==
  /\ all_emails = [s \in Slots |-> <<>>]
  /\ valid_emails = [s \in Slots |-> <<>>]
  /\ q = [s \in Slots |-> <<>>]
  /\ unfinished = [s \in Slots |-> 0]
  /\ threads = [s \in Slots |-> 0]
  /\ fi = [s \in Slots |-> 0]
  /\ wpc = [s \in Slots |-> [w \in Workers |-> "new"]]
  /\ wemail = [s \in Slots |-> [w \in Workers |-> None]]
  /\ retval = [s \in Slots |-> <<>>]
  /\ catchall_probes = [s \in Slots |-> 0]
  /\ probe_count = [s \in Slots |-> <<>>]

IdleBulk ==
  /\ bpc = "idle"
  /\ email_data = <<>>
  /\ email_data_clean = <<>>
  /\ all_valid_emails = <<>>
  /\ bq = <<>>
  /\ bunfinished = 0
  /\ bthreads = 0
  /\ bi = 0
  /\ bwpc = [b \in BulkWorkers |-> "new"]
  /\ bwdata = [b \in BulkWorkers |-> None]
  /\ bretval = <<>>
  /\ runs = <<>>
  /\ skipped = {}

\* check_smtp(email), just called
CallOf(email) ==
  [pc |-> "split", email |-> email, domain |-> <<>>, conn |-> "none",
   pending |-> FALSE, code |-> "", dialogue |-> <<>>, ret |-> FALSE]

\* no call of check_smtp is followed step by step
IdleProbe == cs = [CallOf(<<>>) EXCEPT !.pc = "idle"]

\* no pure method is called on its own
IdleUnit == unit = [call |-> [fn |-> "none"], pc |-> "idle", ret |-> [kind |-> "none"]]

\* a Scout, and one call find_valid_emails(DomainD, names) on it
Init ==
  /\ self \in {c \in Configs : c.num_bulk_threads = 1}
  /\ server = <<>>
  /\ IdleSlots
  /\ IdleBulk
  /\ IdleProbe
  /\ IdleUnit
  /\ fpc = [s \in Slots |-> IF s = 0 THEN "call" ELSE "idle"]
  /\ \E i \in DOMAIN NamesInputs :
       fnames = [s \in Slots |-> IF s = 0 THEN NamesInputs[i] ELSE NoneNames]
  /\ fdomain = [s \in Slots |-> IF s = 0 THEN DomainD ELSE <<>>]


Next == FvStep(0)

Spec == Init /\ [][Next]_vars

\* the calls of find_valid_emails the liveness check follows: the default
\* generation flags, either setting of the other flags, every pool size
InitFair ==
  /\ Init
  /\ self.check_variants /\ self.normalize

\* the scheduler is fair: a thread that can take a step is not left waiting
\* for ever
FvFairness(s) == WF_vars(FvMain(s)) /\ \A w \in Workers : WF_vars(FvWorker(s, w))

FairSpec == InitFair /\ [][Next]_vars /\ FvFairness(0)

JobA == Job(DomainD, ListNames(<< <<"a">> >>))
JobB == Job(DomainE, StrNames(<<"a">>))
JobRaising == Job(DomainD, StrNames(<<"a", " ">>))
JobNoNames == Job(DomainD, AbsentNames)

\* the job lists the model calls find_valid_emails_bulk with
BulkInputs ==
  << <<>>,
     <<JobA>>,
     <<JobA, JobB>>,
     <<JobA, JobA>>,
     <<JobRaising, JobA>>,
     <<JobNoNames>> >>

\* a Scout, and one call find_valid_emails_bulk(email_data) on it
InitBulk ==
  /\ self \in {c \in Configs : c.check_variants /\ c.check_prefixes /\ c.normalize}
  /\ server = <<>>
  /\ IdleSlots
  /\ IdleProbe
  /\ IdleUnit
  /\ fpc = [s \in Slots |-> "idle"]
  /\ fdomain = [s \in Slots |-> <<>>]
  /\ fnames = [s \in Slots |-> NoneNames]
  /\ bpc = "call"
  /\ \E i \in DOMAIN BulkInputs : email_data = BulkInputs[i]
  /\ email_data_clean = <<>>
  /\ all_valid_emails = <<>>
  /\ bq = <<>>
  /\ bunfinished = 0
  /\ bthreads = 0
  /\ bi = 0
  /\ bwpc = [b \in BulkWorkers |-> "new"]
  /\ bwdata = [b \in BulkWorkers |-> None]
  /\ bretval = <<>>
  /\ runs = <<>>
  /\ skipped = {}

NextBulk == BulkStep

SpecBulk == InitBulk /\ [][NextBulk]_vars

\* the bulk calls the liveness check follows: a job that raises before a job
\* that does not, and a single job
InitBulkFair ==
  /\ InitBulk
  /\ email_data \in {BulkInputs[2], BulkInputs[5]}

BulkFairness ==
  /\ WF_vars(BulkMain)
  /\ \A b \in BulkWorkers :
        WF_vars(BulkWorker(b)) /\ \A w \in Workers : WF_vars(FvWorker(b, w))

FairSpecBulk == InitBulkFair /\ [][NextBulk]_vars /\ BulkFairness

\* the addresses the model calls check_smtp with: a candidate, a string with
\* no '@', an address with two, an address that is not ASCII
ProbeInputs ==
  { <<"a", "@", "d">>, <<"a">>, <<"a", "@", "d", "@", "e">>, <<"e_acute", "@", "d">> }

\* a Scout, and one call check_smtp(email) on it
InitSmtp ==
  /\ self \in DefaultConfigs
  /\ server = <<>>
  /\ IdleSlots
  /\ IdleBulk
  /\ IdleUnit
  /\ fpc = [s \in Slots |-> "idle"]
  /\ fdomain = [s \in Slots |-> <<>>]
  /\ fnames = [s \in Slots |-> NoneNames]
  /\ cs \in {CallOf(email) : email \in ProbeInputs}

NextSmtp == CsStep

SpecSmtp == InitSmtp /\ [][NextSmtp]_vars

\* the name tokens and the characters the calls are made of
UnitTokens == {<<"a">>, <<"b", "e">>, <<"i">>, <<"-">>}
UnitChars == {"a", "A", "7", "-", " ", "e_acute", "cjk_bei"}
ListsUpTo(S, n) == UNION {[1..k -> S] : k \in 0..n}

\* the calls the model makes
UnitCalls ==
  {[fn |-> "generate_email_variants", names |-> l, domain |-> d, normalize |-> n] :
     l \in ListsUpTo(UnitTokens, MaxTokens), d \in {DomainD, DomainE}, n \in BOOLEAN}
  \cup {[fn |-> "normalize_name", name |-> x] : x \in ListsUpTo(UnitChars, MaxNameLen)}
  \cup {[fn |-> "generate_prefixes", domain |-> d, custom_prefixes |-> c] :
          d \in {DomainD, DomainE},
          c \in {NoPrefixes} \cup {CustomPrefixes(l) : l \in ListsUpTo(UnitTokens, MaxTokens)}}

\* a Scout, and one call of a pure method on it
InitUnit ==
  /\ self \in DefaultConfigs
  /\ server = <<>>
  /\ IdleSlots
  /\ IdleBulk
  /\ IdleProbe
  /\ fpc = [s \in Slots |-> "idle"]
  /\ fdomain = [s \in Slots |-> <<>>]
  /\ fnames = [s \in Slots |-> NoneNames]
  /\ unit \in {[call |-> c, pc |-> "call", ret |-> [kind |-> "none"]] : c \in UnitCalls}

NextUnit == UnitStep

SpecUnit == InitUnit /\ [][NextUnit]_vars


(***************************************************************************)
(* Properties.                                                             *)
(***************************************************************************)
\* the server's table says 250 for address e
Deliverable(e) == e \in DOMAIN server /\ server[e] = "250"

\* the catch-all probe of the call in slot s was answered 250
CatchAllAccepted(s) ==
  \E rp \in RandomPrefixes : Deliverable(random_email(rp, fdomain[s]))

\* worker w of slot s holds an item it took from the queue
Holding(s, w) == wpc[s][w] \in {"check", "append", "done"}

Holders(s, i) == {w \in Workers : Holding(s, w) /\ wemail[s][w] = i}

NoWorkerStarted(s) == threads[s] = 0 /\ \A w \in Workers : wpc[s][w] = "new"

\* C1: with check_catchall on, a catch-all probe that reports deliverable makes
\* the call return [] after exactly one probe: nothing is enqueued or probed
\* and no worker is started, whatever names is
C1_CatchAllShortCircuits ==
  (self.check_catchall /\ CatchAllAccepted(0)) =>
     /\ fpc[0] = "returned"
     /\ retval[0] = <<>>
     /\ catchall_probes[0] = 1
     /\ Cardinality(DOMAIN server) = 1
     /\ probe_count[0] = <<>>
     /\ q[0] = <<>> /\ unfinished[0] = 0
     /\ NoWorkerStarted(0)

C1_Witness ==
  /\ self.check_catchall /\ CatchAllAccepted(0)
  /\ fpc[0] = "returned"
  /\ UsesVariants(self, fnames[0])

\* C2: the returned list holds every candidate the probe accepted as often as
\* it was enqueued, and nothing else
C2_ResultIsExactlyTheAccepted ==
  (fpc[0] = "returned") =>
     \A e \in Range(all_emails[0]) \cup Range(retval[0]) :
        Count(retval[0], e) = IF Deliverable(e) THEN Count(all_emails[0], e) ELSE 0

C2_Witness ==
  /\ fpc[0] = "returned"
  /\ self.num_threads = 2
  /\ Len(retval[0]) = 2
  /\ Len(all_emails[0]) = 3

\* C3: a queue item is held by at most one worker, is never both queued and
\* held, is probed at most once, and exactly once when the call returns
C3_EachItemProbedOnce ==
  /\ \A i \in DOMAIN all_emails[0] :
        /\ Count(q[0], i) + Cardinality(Holders(0, i)) <= 1
        /\ probe_count[0][i] <= 1
  /\ (fpc[0] = "returned" /\ ~CatchAllAccepted(0)) =>
        /\ DOMAIN probe_count[0] = DOMAIN all_emails[0]
        /\ \A i \in DOMAIN all_emails[0] : probe_count[0][i] = 1

C3_Witness ==
  /\ fpc[0] = "returned"
  /\ self.num_threads = 2
  /\ Len(all_emails[0]) = 3
  /\ \A i \in DOMAIN all_emails[0] : probe_count[0][i] = 1

\* nothing of the call in slot s is queued or in flight, every worker it
\* started has ended
FvQuiescent(s) ==
  /\ q[s] = <<>>
  /\ \A w \in Workers : ~Holding(s, w)
  /\ \A w \in Workers : wpc[s][w] = IF w <= threads[s] THEN "exited" ELSE "new"
  /\ \A i \in DOMAIN all_emails[s] : probe_count[s][i] >= 1

BulkQuiescent ==
  /\ bq = <<>>
  /\ \A b \in BulkWorkers : bwpc[b] = IF b <= bthreads THEN "exited" ELSE "new"
  /\ \A b \in BulkWorkers : fpc[b] = "idle" /\ NoWorkerStarted(b)
  /\ \A i \in DOMAIN email_data_clean : runs[i] >= 1

\* C4: when find_valid_emails or find_valid_emails_bulk returns, nothing it
\* dispatched is queued or in flight and every thread it started has ended
C4_ReturnIsABarrier ==
  /\ \A s \in Slots : fpc[s] = "returned" => FvQuiescent(s)
  /\ bpc = "returned" => BulkQuiescent

C4_Witness ==
  /\ bpc = "returned"
  /\ bthreads = 2
  /\ Len(bretval) = 2
  /\ \E i \in DOMAIN bretval : Len(bretval[i].valid_emails) > 0

\* C5: once the candidates are built, the call returns, under fair scheduling
C5_EventuallyReturns == (fpc[0] = "start") ~> (fpc[0] = "returned")

C5_Witness ==
  /\ fpc[0] = "returned"
  /\ threads[0] = 2
  /\ all_emails[0] = <<>>

\* the candidates as the arguments and the flags decide them; none when the
\* generation raises
CandidateSet(cfg, domain, names) ==
  IF GenerationRaises(cfg, names) THEN {}
  ELSE UNION {Range(l) : l \in CandidateLists(cfg, domain, names)}

\* C6: the set returned is decided by the domain, the names and the server's
\* table alone: it is the same for every pool size and every interleaving
C6_ResultIndependentOfPoolSize ==
  (fpc[0] = "returned") =>
     Range(retval[0]) =
       IF self.check_catchall /\ CatchAllAccepted(0) THEN {}
       ELSE {e \in CandidateSet(self, fdomain[0], fnames[0]) : Deliverable(e)}

C6_Witness ==
  /\ fpc[0] = "returned"
  /\ self.num_threads = 2
  /\ Cardinality(Range(retval[0])) = 2
  /\ \E e \in Range(all_emails[0]) : ~Deliverable(e)

\* every probe so far raised or timed out
EveryProbeRaised == \A e \in DOMAIN server : server[e] = "raise"

\* C7: if every probe raises, the call returns [] and does not raise
C7_RaisingProbesYieldEmpty ==
  EveryProbeRaised =>
     /\ fpc[0] # "raised"
     /\ fpc[0] = "returned" => retval[0] = <<>>

\* C8: a failing probe is a non-match and a failing job is skipped; the worker
\* marks the item done and goes on, every queued item is processed, no worker
\* ends before the stop signals, and the call is never stuck
C8_WorkersSurviveFailures ==
  /\ \A s \in Slots :
        /\ \A e \in Range(valid_emails[s]) : Deliverable(e)
        /\ \A w \in Workers : wpc[s][w] = "exited" => fpc[s] \in {"stop", "tjoin", "returned"}
        /\ (fpc[s] = "returned" /\ threads[s] > 0) =>
              \A i \in DOMAIN all_emails[s] : probe_count[s][i] = 1
  /\ \A b \in BulkWorkers : bwpc[b] = "exited" => bpc \in {"stop", "tjoin", "returned"}
  /\ bpc = "returned" =>
        /\ \A i \in DOMAIN email_data_clean : runs[i] = 1
        /\ Len(bretval) = Len(email_data_clean) - Cardinality(skipped)

C8_FailuresDoNotStopThePool ==
  /\ []C8_WorkersSurviveFailures
  /\ (bpc = "call") ~> (bpc = "returned")

C8_Witness ==
  /\ bpc = "returned"
  /\ skipped # {}
  /\ Len(bretval) = 1
  /\ \E e \in DOMAIN server : server[e] = "raise"

\* how many structurally distinct jobs data holds
DistinctJobs(data) ==
  Cardinality({n \in DOMAIN data : \A m \in 1..(n - 1) : ~JobEq(data[m], data[n])})

\* C9: one pipeline run at most per distinct job, and as many records returned
\* as there are distinct jobs
C9_OneRecordPerDistinctJob ==
  /\ \A i \in DOMAIN runs : runs[i] <= 1
  /\ bpc = "returned" => Len(bretval) = DistinctJobs(email_data)

\* the candidates of slot s are built
Generated(s) == fpc[s] \in {"start", "enqueue", "qjoin", "stop", "tjoin"}

\* C10: the candidate list holds no address twice
C10_NoDuplicateCandidates == Generated(0) => NoDuplicates(all_emails[0])

\* check_smtp is over: it returned, or an exception left it
CsOver == cpc \in {"done", "raised"}

\* the dialogue came to RCPT TO and the server answered it with reply
RcptAnswered(reply) == \E i \in DOMAIN dialogue : dialogue[i] = Said("rcpt", reply)

\* C11: check_smtp returns true exactly when RCPT TO was reached and answered
\* 250, false in every other case, and no exception leaves it
C11_TrueIffRcpt250 ==
  CsOver => /\ cpc = "done"
            /\ cret <=> RcptAnswered("250")

\* C12: once check_smtp is over, whatever the outcome, the connection it
\* opened is not open any more
C12_ConnectionClosedOnExit == CsOver => conn # "open"

\* an exception raised at RCPT TO with the socket open was caught, false returned
C12_Witness ==
  /\ cpc = "done"
  /\ ~cret
  /\ RcptAnswered("encode_error")
  /\ conn = "closed"

\* generate_email_variants was called and returned a list
VariantsReturned ==
  upc = "done" /\ ucall.fn = "generate_email_variants" /\ uret.kind = "list"

\* e is <local>@D
HasForm(e, D) ==
  /\ Len(e) > Len(D)
  /\ SubSeq(e, Len(e) - Len(D), Len(e)) = <<"@">> \o D

RECURSIVE Factorial(_)
Factorial(n) == IF n = 0 THEN 1 ELSE n * Factorial(n - 1)

\* N!*2 + N + N
FullLengthBound(n) == Factorial(n) * 2 + n + n

\* the sum over r = from..n of 2 * n!/(n-r)!
RECURSIVE PermutationTerms(_, _)
PermutationTerms(n, from) ==
  IF from > n THEN 0
  ELSE 2 * (Factorial(n) \div Factorial(n - from)) + PermutationTerms(n, from + 1)

\* each token, the permutations of every length from 2 to n joined with and
\* without '.', each token's first character
EveryLengthBound(n) == n + PermutationTerms(n, 2) + n

\* C13 as stated: every address returned is <local>@D, and at most N!*2 + N + N
\* addresses are returned for N name tokens
C13_SizeBoundedByFullPermutations ==
  VariantsReturned =>
     /\ \A e \in uret.elems : HasForm(e, ucall.domain)
     /\ uret.len <= FullLengthBound(Len(ucall.names))

\* C13 amended: every address returned is <local>@D, and at most
\* N + (sum over r = 2..N of 2 * N!/(N-r)!) + N addresses are returned
C13_SizeBoundedByAllPermutations ==
  VariantsReturned =>
     /\ \A e \in uret.elems : HasForm(e, ucall.domain)
     /\ uret.len <= EveryLengthBound(Len(ucall.names))

\* three tokens give more addresses than 3!*2 + 3 + 3
C13_Witness ==
  /\ VariantsReturned
  /\ Len(ucall.names) = 3
  /\ uret.len > FullLengthBound(3)
  /\ uret.len = Cardinality(uret.elems)

\* C14: candidate generation tolerates empty name tokens: find_valid_emails
\* does not raise, whatever the names
C14_EmptyTokensTolerated == fpc[0] # "raised"

\* C15: normalize_name is idempotent: normalizing what it returned changes
\* nothing
C15_NormalizeIdempotent ==
  (upc = "done" /\ ucall.fn = "normalize_name") =>
     normalize_name(uret.v) = uret.v

\* C16: with a custom list P, generate_prefixes returns one address p@D per
\* prefix, in P's order, also for the empty P; without one, the catalogue's
C16_PrefixesExactlyAsGiven ==
  (upc = "done" /\ ucall.fn = "generate_prefixes") =>
     LET P == IF ucall.custom_prefixes.kind = "list" THEN ucall.custom_prefixes.v
              ELSE ModelledPrefixes
     IN  /\ Len(uret.v) = Len(P)
         /\ \A i \in DOMAIN P : uret.v[i] = P[i] \o <<"@">> \o ucall.domain

\* the empty custom list gave the empty list
C16_Witness ==
  /\ upc = "done"
  /\ ucall.fn = "generate_prefixes"
  /\ ucall.custom_prefixes = CustomPrefixes(<<>>)
  /\ uret.v = <<>>

\* names were supplied and are not empty
NamesGiven(names) == names.kind \in {"str", "list", "lists"} /\ names.v # <<>>

\* the variant addresses of the names, none if their generation raises
VariantCandidates(domain, names, normalize) ==
  UNION {IF \E i \in DOMAIN tls : VariantsRaise(tls[i], normalize) THEN {}
         ELSE UNION {VariantAddresses(tls[i], domain, normalize) : i \in DOMAIN tls} :
           tls \in {TokenLists(names)}}

\* the prefix addresses of the domain
PrefixCandidates(domain) == Range(generate_prefixes(domain))

\* the mode the flags and the names select, as the selection rule states it
SelectedMode(cfg, names) ==
  IF cfg.check_variants /\ NamesGiven(names) THEN "variants"
  ELSE IF cfg.check_prefixes /\ ~NamesGiven(names) THEN "prefixes"
  ELSE "none"

\* the candidates of the selected mode
ModeCandidates(cfg, domain, names) ==
  CASE SelectedMode(cfg, names) = "variants" ->
         VariantCandidates(domain, names, cfg.normalize)
    [] SelectedMode(cfg, names) = "prefixes" -> PrefixCandidates(domain)
    [] OTHER -> {}

\* the address of a catch-all probe for the domain
IsCatchAllProbe(e, domain) ==
  \E random_prefix \in RandomPrefixes : e = random_email(random_prefix, domain)

\* C17: besides the catch-all probe, only candidates of the one selected mode
\* are ever enqueued or probed; when neither mode is selected nothing is, and
\* the result is empty
C17_ModesAreExclusive ==
  /\ \A candidates \in {ModeCandidates(self, fdomain[0], fnames[0])} :
        /\ \A e \in DOMAIN server :
              IsCatchAllProbe(e, fdomain[0]) \/ e \in candidates
        /\ Range(all_emails[0]) \subseteq candidates
  /\ (fpc[0] = "returned" /\ SelectedMode(self, fnames[0]) = "none") =>
        retval[0] = <<>>

\* names supplied with both modes switched on: variants were probed, no prefix
C17_Witness ==
  /\ fpc[0] = "returned"
  /\ self.check_variants /\ self.check_prefixes
  /\ NamesGiven(fnames[0])
  /\ Len(all_emails[0]) > 0
  /\ \A i \in DOMAIN all_emails[0] : probe_count[0][i] = 1
  /\ PrefixCandidates(fdomain[0]) \cap DOMAIN server = {}

\* the candidate probes of slot s in flight: a worker holds an address and
\* check_smtp has not returned yet
ProbesInFlight(s) == Cardinality({w \in Workers : wpc[s][w] = "check"})

\* the catch-all probe of slot s is about to run or running
CatchAllInFlight(s) == fpc[s] = "call" /\ self.check_catchall

\* a call of find_valid_emails is active in slot s
PipelineInFlight(s) == fpc[s] \notin {"idle", "returned", "raised"}

\* all probes of slot s in flight
AllProbesInFlight(s) == ProbesInFlight(s) + IF CatchAllInFlight(s) THEN 1 ELSE 0

RECURSIVE SumProbesInFlight(_)
SumProbesInFlight(S) ==
  IF S = {} THEN 0
  ELSE LET s == CHOOSE x \in S : TRUE
       IN  AllProbesInFlight(s) + SumProbesInFlight(S \ {s})

\* C18: a call has at most num_threads probes in flight and its catch-all probe
\* overlaps none of them; a bulk call has at most num_bulk_threads pipelines
\* in flight and num_bulk_threads * num_threads probes in all
C18_ConcurrencyWithinBudget ==
  /\ \A s \in Slots :
        /\ ProbesInFlight(s) <= self.num_threads
        /\ CatchAllInFlight(s) => ProbesInFlight(s) = 0
  /\ Cardinality({b \in BulkWorkers : PipelineInFlight(b)}) <= self.num_bulk_threads
  /\ SumProbesInFlight(BulkWorkers) <= self.num_bulk_threads * self.num_threads

\* the budget of one call is used up: num_threads probes in flight
C18_Witness ==
  /\ self.num_threads = 2
  /\ \E b \in BulkWorkers : ProbesInFlight(b) = 2

\* the stop signals in a queue, and its real items
StopSignals(queue) == Count(queue, None)
RealItems(queue) == Len(queue) - StopSignals(queue)

\* the workers of slot s that hold a real item, and those that left their loop
Busy(s) == {w \in Workers : wpc[s][w] \in {"check", "append", "done"}}
Exited(s) == {w \in Workers : wpc[s][w] = "exited"}
BulkBusy == {b \in BulkWorkers : bwpc[b] \in {"run", "wait", "done"}}
BulkExited == {b \in BulkWorkers : bwpc[b] = "exited"}

\* the discipline for one pool: pc is where the thread that owns the pool is
SentinelDiscipline(pc, queue, busy, exited, started) ==
  /\ (StopSignals(queue) > 0 \/ exited # {}) =>
        /\ pc \in {"stop", "tjoin", "returned"}
        /\ RealItems(queue) = 0
        /\ busy = {}
  /\ StopSignals(queue) + Cardinality(exited) <= started
  /\ pc \in {"tjoin", "returned"} =>
        StopSignals(queue) + Cardinality(exited) = started
  /\ pc = "returned" =>
        /\ queue = <<>>
        /\ Cardinality(exited) = started

\* C19: in both pools a stop signal is queued only when every real item was
\* taken and marked done, no worker leaves while a real item is queued or in
\* flight, one stop signal is put per started worker and each worker takes
\* one, and the queue is empty at return
C19_SentinelDiscipline ==
  /\ \A s \in Slots :
        SentinelDiscipline(fpc[s], q[s], Busy(s), Exited(s), threads[s])
  /\ SentinelDiscipline(bpc, bq, BulkBusy, BulkExited, bthreads)

\* both pools at two workers, the bulk call returned with both jobs' records
C19_Witness ==
  /\ bpc = "returned"
  /\ bthreads = 2
  /\ self.num_threads = 2
  /\ BulkExited = BulkWorkers
  /\ bq = <<>>
  /\ Len(bretval) = 2

\* record r is the record of job: its domain, its names ([] when the job has
\* none), and only addresses generated for it that the probe accepted
RecordOf(r, job) ==
  /\ r.domain = job.domain
  /\ PyEq(r.names, JobNames(job))
  /\ \A candidates \in {ModeCandidates(self, job.domain, JobNames(job))} :
        \A e \in Range(r.valid_emails) : e \in candidates /\ Deliverable(e)

RecordsOfJobs(records) ==
  \A i \in DOMAIN records :
     \E j \in DOMAIN email_data_clean : RecordOf(records[i], email_data_clean[j])

\* C20: every record appended or returned by a bulk call belongs to one
\* deduplicated job and holds only that job's accepted candidates, however
\* the pipelines of the bulk workers interleave
C20_BulkJobsDoNotInterfere ==
  /\ RecordsOfJobs(all_valid_emails)
  /\ bpc = "returned" => RecordsOfJobs(bretval)

\* two bulk workers: one job's record is appended with an accepted address
\* while the other job's call, for another domain, holds an accepted address
C20_Witness ==
  /\ self.num_bulk_threads = 2
  /\ Len(all_valid_emails) = 1
  /\ all_valid_emails[1].valid_emails # <<>>
  /\ \E b \in BulkWorkers :
        /\ PipelineInFlight(b)
        /\ valid_emails[b] # <<>>
        /\ fdomain[b] # all_valid_emails[1].domain
====
